---- MODULE Spec2Model ----
(***************************************************************************)
(* Model of process_prompt / fetch_logs of the ollama-tools repository in  *)
(* its five source variants (app.py, terminal_run.py, batch_process.py,    *)
(* colab_run.py, enhanced_colab_run.py).  One request is followed from the *)
(* interpretation model call to the value returned to the caller.  The     *)
(* language model, the fuzzy scorer and the log store are the environment: *)
(* what they answer is fixed in the initial state and read by the actions. *)
(***************************************************************************)
EXTENDS Integers, Sequences, FiniteSets, TLC

(***************************************************************************)
(* Program constants                                                       *)
(***************************************************************************)
DEFAULT_TIME_RANGE == 3600
DEFAULT_LIMIT == 100
MAX_LOOKBACK == 2592000
FUZZY_MATCH_THRESHOLD == 80
LimitMaximum == 5000
batch_size == 50
NanosPerSecond == 1000000000

DEFAULT_CONTAINER == "/staging-cobi-v2"

CONTAINERS ==
    << "/stage-bit-ponder", "/staging-cobi-v2", "/staging-evm-relay",
       "/staging-evm-watcher", "/staging-info-server", "/staging-quote",
       "/quote-staging", "/solana-relayer-staging", "/solana-watcher-staging",
       "/starkner-watcher-staging" >>

ContainerSet == { CONTAINERS[i] : i \in 1..Len(CONTAINERS) }

Variants == { "app", "terminal_run", "batch_process", "colab_run", "enhanced_colab_run" }

\* The variants whose process_prompt has the keyword filter and the container check.
FilteringVariants == { "colab_run", "enhanced_colab_run" }

\* available_functions: the one registered capability.
available_functions == { "fetch_logs" }

(***************************************************************************)
(* Bounds of the model                                                     *)
(***************************************************************************)
MaxCalls == 2       \* tool invocations in one interpretation response
MaxStreams == 2     \* streams in one log-store answer (argument-rich runs)
MaxTick == 1        \* seconds between a request's resolve and its fetch_logs
MaxWait == 2        \* seconds that pass while requests wait (two-request runs)
MaxFailAt == 3      \* latest analysis call that the environment lets fail

(***************************************************************************)
(* Python values of the untyped argument mapping.  t is the kind:          *)
(*   "absent" key not in the mapping      "none"   None                    *)
(*   "int"    the integer n               "digits" a digit-only str for n  *)
(*   "text"   a non-empty str that is not digit-only                       *)
(*   "empty"  the empty str                                                *)
(***************************************************************************)
Val(t, n) == [t |-> t, n |-> n]
Absent == Val("absent", 0)
None == Val("none", 0)
IntV(n) == Val("int", n)
DigitsV(n) == Val("digits", n)
TextV == Val("text", 0)
EmptyV == Val("empty", 0)

\* dict.get(key) / dict.get(key, None): an absent key reads as None.
Get(v) == IF v.t = "absent" THEN None ELSE v

\* dict.get(key, default)
GetDefault(v, d) == IF v.t = "absent" THEN d ELSE v

\* isinstance(x, str) and x.isdigit(): x = int(x).  "".isdigit() is False.
Coerce(v) == IF v.t = "digits" THEN IntV(v.n) ELSE v

\* Python truthiness of a value used in `x or default`.
Truthy(v) ==
    CASE v.t = "none" -> FALSE
      [] v.t = "absent" -> FALSE
      [] v.t = "empty" -> FALSE
      [] v.t = "int" -> v.n # 0
      [] OTHER -> TRUE

\* `x if x is not None else d`
IfNotNone(v, d) == IF v.t = "none" THEN d ELSE v

\* What an f-string interpolation of the value puts into the URL or the
\* display string: an int and a digit-only str render as the same digits.
Rendered(v) ==
    CASE v.t = "int" -> [t |-> "number", n |-> v.n]
      [] v.t = "digits" -> [t |-> "number", n |-> v.n]
      [] v.t = "text" -> [t |-> "text", n |-> 0]
      [] v.t = "empty" -> [t |-> "empty", n |-> 0]
      [] OTHER -> [t |-> "None", n |-> 0]

(***************************************************************************)
(* The prompt: a sequence of words.  `word in prompt.lower()` is a         *)
(* substring test on the lower-cased text; LowerWord and KeywordsIn give   *)
(* lower() and the keyword substrings of each word of the vocabulary.      *)
(***************************************************************************)
LowerWord(w) ==
    CASE w = "START" -> "start"
      [] w = "Limit" -> "limit"
      [] OTHER -> w

KeywordsIn(w) ==
    CASE w = "start" -> { "start" }
      [] w = "from" -> { "from" }
      [] w = "beginning" -> { "beginning" }
      [] w = "end" -> { "end" }
      [] w = "to" -> { "to" }
      [] w = "until" -> { "until" }
      [] w = "limit" -> { "limit" }
      [] w = "history" -> { "to" }
      [] w = "unlimited" -> { "limit" }
      [] OTHER -> {}

\* kw in prompt.lower()
InPrompt(kw, p) == \E i \in 1..Len(p) : kw \in KeywordsIn(LowerWord(p[i]))

has_start(p) == \E kw \in { "start", "from", "beginning" } : InPrompt(kw, p)
has_end(p) == \E kw \in { "end", "to", "until" } : InPrompt(kw, p)
has_limit(p) == InPrompt("limit", p)

Prompts ==
    { << "fetch", "logs" >>,
      << "logs", "from", "until", "Limit" >>,
      << "START", "logs" >>,
      << "show", "history" >>,
      << "unlimited", "logs" >>,
      << "logs", "beginning", "to" >> }

(***************************************************************************)
(* Container strings.  A container argument is [t, s]: t = "absent" when   *)
(* the key is missing, "str" otherwise.                                    *)
(***************************************************************************)
CStr(s) == [t |-> "str", s |-> s]
CAbsent == [t |-> "absent", s |-> ""]

\* str.replace(" ", "-")
ReplaceSpaces(s) ==
    CASE s = "cobi v2" -> "cobi-v2"
      [] s = "staging cobi v2" -> "staging-cobi-v2"
      [] OTHER -> s

\* container if container.startswith("/") else "/" + container
WithSlash(s) ==
    CASE s = "cobi v2" -> "/cobi v2"
      [] s = "cobi-v2" -> "/cobi-v2"
      [] s = "staging cobi v2" -> "/staging cobi v2"
      [] s = "staging-cobi-v2" -> "/staging-cobi-v2"
      [] s = "totally-unknown" -> "/totally-unknown"
      [] OTHER -> s

\* thefuzz scores identical strings 100; any other score is the library's
\* answer, read from the environment's score vector sv (one score per
\* element of CONTAINERS, 0..100).
Score(q, i, sv) == IF q = CONTAINERS[i] THEN 100 ELSE sv[i]

\* process.extractOne(query, CONTAINERS): the best-scoring choice, the first
\* of equally scored ones.
extractOne(q, sv) ==
    LET best == CHOOSE i \in 1..Len(CONTAINERS) :
                    /\ \A j \in 1..Len(CONTAINERS) : Score(q, j, sv) <= Score(q, i, sv)
                    /\ \A j \in 1..(i-1) : Score(q, j, sv) < Score(q, i, sv)
    IN  [match |-> CONTAINERS[best], score |-> Score(q, best, sv)]

(***************************************************************************)
(* Errors raised or returned inside process_prompt.                        *)
(***************************************************************************)
Err(kind, candidate, score, status) ==
    [kind |-> kind, candidate |-> candidate, score |-> score, status |-> status]
NoErr == Err("none", "", 0, 0)

(***************************************************************************)
(* The arguments display string.  form "used": the string built from the   *)
(* resolved values; "raw": the interpolated raw argument mapping of the    *)
(* model; "empty": the empty string.                                       *)
(***************************************************************************)
Display(form, c, st, en, li) ==
    [form |-> form, container |-> c, start_time |-> st, end_time |-> en, limit |-> li]
EmptyDisplay == Display("empty", CAbsent, Absent, Absent, Absent)
RawDisplay(args) ==
    Display("raw", args.container, args.start_time, args.end_time, args.limit)

(***************************************************************************)
(* Argument resolution: the part of process_prompt between taking one tool *)
(* invocation and calling fetch_logs.  outcome is "call" (fetch_logs is    *)
(* called with container, start_time, end_time, limit), "error" (the       *)
(* request ends with err) or "skip" (the loop goes on to the next          *)
(* invocation).                                                            *)
(***************************************************************************)
Resolution(outcome, err, c, st, en, li, d) ==
    [outcome |-> outcome, err |-> err, container |-> c,
     start_time |-> st, end_time |-> en, limit |-> li, display |-> d]
ResolveError(err, d) == Resolution("error", err, "", None, None, None, d)
ResolveSkip == Resolution("skip", NoErr, "", None, None, None, EmptyDisplay)

\* enhanced_colab_run.py, process_prompt, lines 104-140
ResolveEnhanced(p, tool, now, sv) ==
    LET args == tool.arguments
        c0 == IF args.container.t = "absent" THEN DEFAULT_CONTAINER ELSE args.container.s
        c2 == WithSlash(ReplaceSpaces(c0))
        m == extractOne(c2, sv)
        start_time == Coerce(IF has_start(p) THEN Get(args.start_time) ELSE None)
        end_time == Coerce(IF has_end(p) THEN Get(args.end_time) ELSE None)
        limit == Coerce(IF has_limit(p) THEN Get(args.limit) ELSE IntV(DEFAULT_LIMIT))
        actual_start == IfNotNone(start_time, IntV(now - DEFAULT_TIME_RANGE))
        actual_end == IfNotNone(end_time, IntV(now))
    IN  IF tool.name \notin available_functions
        THEN ResolveError(Err("UnknownFunction", "", 0, 0), EmptyDisplay)
        ELSE IF m.score >= FUZZY_MATCH_THRESHOLD
        THEN Resolution("call", NoErr, m.match, start_time, end_time, limit,
                        Display("used", CStr(m.match), actual_start, actual_end, limit))
        ELSE ResolveError(Err("InvalidContainer", m.match, m.score, 0), EmptyDisplay)

\* colab_run.py, process_prompt, lines 80-118
ResolveColab(p, tool, now) ==
    LET args == tool.arguments
        f_start == Coerce(IF has_start(p) THEN args.start_time ELSE Absent)
        f_end == Coerce(IF has_end(p) THEN args.end_time ELSE Absent)
        f_limit == Coerce(IF has_limit(p) THEN args.limit ELSE Absent)
        c0 == IF args.container.t = "absent" THEN "/staging-cobi-v2" ELSE args.container.s
        container == WithSlash(c0)
        start_time == Get(f_start)
        end_time == Get(f_end)
        limit == GetDefault(f_limit, IntV(100))
        actual_start == IfNotNone(start_time, IntV(now - 3600))
        actual_end == IfNotNone(end_time, IntV(now))
    IN  IF tool.name \notin available_functions
        THEN ResolveSkip
        ELSE IF container \in ContainerSet
        THEN Resolution("call", NoErr, container, start_time, end_time, limit,
                        Display("used", CStr(container), actual_start, actual_end, limit))
        ELSE ResolveError(Err("InvalidContainer", "", 0, 0), EmptyDisplay)

\* app.py lines 82-91 and 125-128; terminal_run.py lines 80-93;
\* batch_process.py lines 88-101.  Only app.py returns a display string.
ResolvePlain(v, tool, now) ==
    LET args == tool.arguments
        resolved_start == GetDefault(args.start_time, IntV(now - 3600))
        resolved_end == GetDefault(args.end_time, IntV(now))
        resolved_limit == GetDefault(args.limit, IntV(100))
    IN  IF tool.name \notin available_functions
        THEN ResolveError(Err("ToolNotFound", "", 0, 0), EmptyDisplay)
        ELSE IF args.container.t = "absent"
        THEN ResolveError(Err("KeyError", "", 0, 0),
                          IF v = "app" THEN RawDisplay(args) ELSE EmptyDisplay)
        ELSE Resolution("call", NoErr, args.container.s,
                        resolved_start, resolved_end, resolved_limit,
                        Display("used", args.container, resolved_start, resolved_end,
                                resolved_limit))

Resolve(v, p, tool, now, sv) ==
    CASE v = "enhanced_colab_run" -> ResolveEnhanced(p, tool, now, sv)
      [] v = "colab_run" -> ResolveColab(p, tool, now)
      [] OTHER -> ResolvePlain(v, tool, now)

(***************************************************************************)
(* fetch_logs up to the HTTP request: the start, end and limit it puts in  *)
(* the URL, or the TypeError of comparing or subtracting a str.            *)
(***************************************************************************)
Query(c, st, en, li) == [container |-> c, start |-> st, end |-> en, limit |-> li]

\* if start > end: swap;  if end - start > MAX_LOOKBACK: start = end - MAX_LOOKBACK
Clamp(c, start, end, limit) ==
    IF start.t # "int" \/ end.t # "int"
    THEN [raised |-> TRUE, query |-> Query(c, start, end, limit)]
    ELSE LET s1 == IF start.n > end.n THEN end.n ELSE start.n
             e1 == IF start.n > end.n THEN start.n ELSE end.n
             s2 == IF e1 - s1 > MAX_LOOKBACK THEN e1 - MAX_LOOKBACK ELSE s1
         IN  [raised |-> FALSE, query |-> Query(c, IntV(s2), IntV(e1), limit)]

\* enhanced_colab_run.py, fetch_logs, lines 56-66
BuildQueryEnhanced(c, st, en, li, now) ==
    LET start == IF Truthy(st) THEN st ELSE IntV(now - DEFAULT_TIME_RANGE)
        end == IF Truthy(en) THEN en ELSE IntV(now)
    IN  Clamp(c, start, end, li)

\* colab_run.py, fetch_logs, lines 20-28
BuildQueryColab(c, st, en, li, now) ==
    Clamp(c, IfNotNone(st, IntV(now - 3600)), IfNotNone(en, IntV(now)), li)

\* app.py lines 29-33, terminal_run.py lines 26-30, batch_process.py lines 25-29
BuildQueryPlain(c, st, en, li, now) ==
    [raised |-> FALSE,
     query |-> Query(c, IfNotNone(st, IntV(now - 3600)), IfNotNone(en, IntV(now)), li)]

BuildQuery(v, c, st, en, li, now) ==
    CASE v = "enhanced_colab_run" -> BuildQueryEnhanced(c, st, en, li, now)
      [] v = "colab_run" -> BuildQueryColab(c, st, en, li, now)
      [] OTHER -> BuildQueryPlain(c, st, en, li, now)

(***************************************************************************)
(* The log store's answer and its normalization.                           *)
(* A nanosecond timestamp is [s, ns]: s * 10^9 + ns.                        *)
(***************************************************************************)
Ts(s, ns) == [s |-> s, ns |-> ns]

\* int(int(ts) / 1_000_000_000): `/` is float division, correctly rounded to
\* a double, then truncated.  For 2^30 <= s < 2^31 a double has 22 fraction
\* bits, so the quotient rounds up to s + 1 when 10^9 - ns < 10^9 * 2^-23.
NsToSeconds(ts) ==
    IF NanosPerSecond - ts.ns < 120 THEN ts.s + 1 ELSE ts.s

\* One line of raw_logs: f"Timestamp: {ts}, Message: {msg}".  unit tells
\* whether ts was converted to seconds ("s") or left as returned ("ns").
LineAsIs(val) == [unit |-> "ns", s |-> val.ts.s, ns |-> val.ts.ns, msg |-> val.msg]
LineSeconds(val) == [unit |-> "s", s |-> NsToSeconds(val.ts), ns |-> 0, msg |-> val.msg]

\* A flattening that reads the first stream only: data.result[0]['values'].
FlattenFirst(streams, convert) ==
    IF streams = <<>> THEN <<>>
    ELSE [i \in 1..Len(Head(streams)) |->
              IF convert THEN LineSeconds(Head(streams)[i]) ELSE LineAsIs(Head(streams)[i])]

RECURSIVE Flatten(_, _)
\* for entry in log_entries: for ts, msg in entry.get('values', []): append
Flatten(streams, convert) ==
    IF streams = <<>> THEN <<>>
    ELSE [i \in 1..Len(Head(streams)) |->
              IF convert THEN LineSeconds(Head(streams)[i]) ELSE LineAsIs(Head(streams)[i])]
         \o Flatten(Tail(streams), convert)

\* A slice that stops one element early: raw_logs[i:i + n - 1].
SliceShort(seq, i, n) ==
    [k \in 1..(IF Len(seq) - i < n - 1 THEN (IF Len(seq) - i < 0 THEN 0 ELSE Len(seq) - i)
               ELSE n - 1)
        |-> seq[i + k]]

\* raw_logs[i:i + n] for a 0-based i
Slice(seq, i, n) ==
    [k \in 1..(IF Len(seq) - i < n THEN (IF Len(seq) - i < 0 THEN 0 ELSE Len(seq) - i) ELSE n)
        |-> seq[i + k]]

(***************************************************************************)
(* What process_prompt hands back.  shape: "pending" (not returned yet),   *)
(* "triple" (app.py), "six" (three values and three timings), "string"     *)
(* (terminal_run.py, batch_process.py), "None" (the function falls off its *)
(* end), "raised" (an exception leaves process_prompt).                    *)
(***************************************************************************)
Raw(kind, lines) == [kind |-> kind, lines |-> lines]
Text(kind, err, replies, lines) ==
    [kind |-> kind, err |-> err, replies |-> replies, lines |-> lines]
Result(shape, args, raw, text) ==
    [shape |-> shape, args |-> args, raw |-> raw, text |-> text]

NoRaw == Raw("empty", <<>>)
NoText == Text("empty", NoErr, <<>>, <<>>)
Pending == Result("pending", EmptyDisplay, NoRaw, NoText)
ReturnsNone == Result("None", EmptyDisplay, NoRaw, NoText)

ShapeOf(v) ==
    CASE v = "app" -> "triple"
      [] v \in { "terminal_run", "batch_process" } -> "string"
      [] OTHER -> "six"

\* return ..., initial_response.message.content
ContentResult(v) == Result(ShapeOf(v), EmptyDisplay, NoRaw, Text("content", NoErr, <<>>, <<>>))

\* The value returned by the except clause around the fetch: "", "",
\* f"Error: {e}"; in app.py f"Arguments: {tool.function.arguments}", "",
\* f"Error fetching logs: {e}"; in the one-string variants the error text.
\* "Tool not found." is returned by the else branch, with "" as display.
FailureResult(v, err, args) ==
    Result(ShapeOf(v),
           IF v = "app" /\ err.kind # "ToolNotFound" THEN RawDisplay(args) ELSE EmptyDisplay,
           NoRaw, Text("error", err, <<>>, <<>>))

(***************************************************************************)
(* Text of the analysis replies: a sequence of characters [ch, k], where   *)
(* ch is "x" (a non-blank stretch of reply k), "w" (a blank) or "n" (the   *)
(* "\n" that batch_process.py appends).                                    *)
(***************************************************************************)
Ch(c, k) == [ch |-> c, k |-> k]
Blank == Ch("w", 0)
Newline == Ch("n", 0)
IsSpace(c) == c.ch \in { "w", "n" }

\* message.content of the k-th analysis reply, for the three kinds of
\* replies the environment gives: plain text, text with blanks around it,
\* and nothing at all from the second reply on.
ReplyShapes == { "plain", "padded", "blank" }
ReplyText(shape, k) ==
    CASE shape = "padded" -> << Blank, Ch("x", k), Blank >>
      [] shape = "blank" /\ k > 1 -> <<>>
      [] OTHER -> << Ch("x", k) >>

RECURSIVE LStrip(_)
\* str.lstrip()
LStrip(text) ==
    IF text # <<>> /\ IsSpace(Head(text)) THEN LStrip(Tail(text)) ELSE text

RECURSIVE RStrip(_)
\* str.rstrip()
RStrip(text) ==
    IF text # <<>> /\ IsSpace(text[Len(text)])
    THEN RStrip(SubSeq(text, 1, Len(text) - 1)) ELSE text

\* str.strip(): blanks and newlines are taken off both ends.
Strip(text) == LStrip(RStrip(text))

(***************************************************************************)
(* The configuration read at import: BASE_URL = os.getenv("BASE_URL") and  *)
(* TOKEN = os.getenv("TOKEN"), each "set" or "missing" (None).             *)
(***************************************************************************)
Config(base, token) == [BASE_URL |-> base, TOKEN |-> token]
Configs == { Config(b, t) : b \in { "set", "missing" }, t \in { "set", "missing" } }

\* API_TOKEN = f"Bearer {TOKEN}", as the parts of the string: a missing TOKEN
\* is interpolated as the text None.
API_TOKEN(cfg) == << "Bearer ", IF cfg.TOKEN = "missing" THEN "None" ELSE "token" >>

\* `not s` for a str: the string is empty.
NotStr(parts) == \A i \in 1..Len(parts) : parts[i] = ""

\* What fetch_logs raises before it builds the URL: enhanced_colab_run.py
\* lines 53-54 test API_TOKEN; the other variants test nothing.
ConfigRaises(v, cfg) == v = "enhanced_colab_run" /\ NotStr(API_TOKEN(cfg))

\* requests.get on f"{BASE_URL}?query=...": with BASE_URL None the URL is
\* "None?query=...", which has no scheme, and requests raises MissingSchema
\* (a RequestException) without sending anything.
UrlRaises(cfg) == cfg.BASE_URL = "missing"

(***************************************************************************)
(* State                                                                   *)
(***************************************************************************)
VARIABLES
    variant,        \* which source file's process_prompt runs
    config,         \* environment: BASE_URL and TOKEN as the module read them
    replyShape,     \* environment: the kind of text the analysis calls answer
    rid,            \* which request of the process is running
    parked,         \* the other requests of the process: their saved frames
    prompt,         \* the request text
    response,       \* environment: what the interpretation chat call answers
    scores,         \* environment: the fuzzy scorer's scores against CONTAINERS
    store,          \* environment: what the log store answers
    failAt,         \* environment: the analysis chat call that raises (0: none)
    clock,          \* int(time.time())
    now,            \* the clock as process_prompt read it when resolving
    pc,             \* the stage the request is in
    toolIdx,        \* position of the for loop over tool_calls
    pending,        \* the resolved arguments fetch_logs is called with
    arguments_str,  \* the display string built before the fetch
    queries,        \* the queries sent to the log store, in order
    logs,           \* data.result of the store's answer
    raw_logs,       \* the flattened lines
    batch_i,        \* i of `for i in range(0, len(raw_logs), batch_size)`
    refined_result, \* the analysis text accumulated so far
    chatCalls,      \* the chat calls made, in order
    result          \* what process_prompt returned

\* What no step of the running request changes: the environment's answers
\* and the frames of the other requests.
env == << variant, config, replyShape, rid, parked, prompt, response, scores, store, failAt >>
vars == << variant, config, replyShape, rid, parked, prompt, response, scores, store, failAt,
           clock, now, pc, toolIdx,
           pending, arguments_str, queries, logs, raw_logs, batch_i, refined_result,
           chatCalls, result >>

Terminal == { "Answered", "EmptyTerminal", "Done", "Failed", "NoResult" }

ChatCall(purpose, batch, lines) == [purpose |-> purpose, batch |-> batch, lines |-> lines]
AnalysisCalls == SelectSeq(chatCalls, LAMBDA c : c.purpose = "analysis")

\* The invocation the for loop is at.
CurrentTool == response.tool_calls[toolIdx]

(***************************************************************************)
(* An interpretation step that calls the model a second time when the      *)
(* first call fails, before it gives up.                                   *)
(***************************************************************************)
InterpretRetry ==
    /\ pc = "Interpreting"
    /\ chatCalls' = IF response.kind = "error"
                    THEN chatCalls \o << ChatCall("interpret", 0, <<>>),
                                         ChatCall("interpret", 0, <<>>) >>
                    ELSE Append(chatCalls, ChatCall("interpret", 0, <<>>))
    /\ \/ /\ response.kind = "error"
          /\ pc' = "Failed"
          /\ result' = Result("raised", EmptyDisplay, NoRaw,
                              Text("error", Err("Interpretation", "", 0, 0), <<>>, <<>>))
       \/ /\ response.kind = "content"
          /\ pc' = "Answered"
          /\ result' = ContentResult(variant)
       \/ /\ response.kind = "tools"
          /\ response.tool_calls = <<>>
          /\ variant \notin FilteringVariants
          /\ pc' = "Answered"
          /\ result' = ContentResult(variant)
       \/ /\ response.kind = "tools"
          /\ response.tool_calls = <<>>
          /\ variant \in FilteringVariants
          /\ pc' = "NoResult"
          /\ result' = ReturnsNone
       \/ /\ response.kind = "tools"
          /\ response.tool_calls # <<>>
          /\ pc' = "Resolving"
          /\ result' = result
    /\ UNCHANGED << env, clock, now, toolIdx, pending, arguments_str, queries, logs,
                    raw_logs, batch_i, refined_result >>

(***************************************************************************)
(* Interpret: the first chat call and the test for tool_calls.             *)
(* app.py 74-80/129-130, terminal_run.py 72-78/140-141, batch_process.py   *)
(* 78-86/161-162 test the truth of message.tool_calls; colab_run.py 70-78  *)
(* and enhanced_colab_run.py 92-102 test the presence of the key.          *)
(***************************************************************************)
Interpret ==
    /\ pc = "Interpreting"
    /\ chatCalls' = Append(chatCalls, ChatCall("interpret", 0, <<>>))
    /\ \/ /\ response.kind = "error"
          /\ pc' = "Failed"
          /\ result' = Result("raised", EmptyDisplay, NoRaw,
                              Text("error", Err("Interpretation", "", 0, 0), <<>>, <<>>))
       \/ /\ response.kind = "content"
          /\ pc' = "Answered"
          /\ result' = ContentResult(variant)
       \/ /\ response.kind = "tools"
          /\ response.tool_calls = <<>>
          /\ variant \notin FilteringVariants
          /\ pc' = "Answered"
          /\ result' = ContentResult(variant)
       \/ /\ response.kind = "tools"
          /\ response.tool_calls = <<>>
          /\ variant \in FilteringVariants
          /\ pc' = "NoResult"
          /\ result' = ReturnsNone
       \/ /\ response.kind = "tools"
          /\ response.tool_calls # <<>>
          /\ pc' = "Resolving"
          /\ result' = result
    /\ UNCHANGED << env, clock, now, toolIdx, pending, arguments_str, queries, logs,
                    raw_logs, batch_i, refined_result >>

(***************************************************************************)
(* ResolveArgs: one iteration of `for tool in tool_calls` up to the call   *)
(* of fetch_logs.                                                          *)
(***************************************************************************)
ResolveArgs ==
    /\ pc = "Resolving"
    /\ now' = clock
    /\ LET r == Resolve(variant, prompt, CurrentTool, clock, scores)
       IN  \/ /\ r.outcome = "call"
              /\ pending' = r
              /\ arguments_str' = r.display
              /\ pc' = "Retrieving"
              /\ UNCHANGED << toolIdx, result >>
           \/ /\ r.outcome = "error"
              /\ pc' = "Failed"
              /\ result' = FailureResult(variant, r.err, CurrentTool.arguments)
              /\ UNCHANGED << toolIdx, pending, arguments_str >>
           \/ /\ r.outcome = "skip"
              /\ toolIdx < Len(response.tool_calls)
              /\ toolIdx' = toolIdx + 1
              /\ UNCHANGED << pc, pending, arguments_str, result >>
           \/ /\ r.outcome = "skip"
              /\ toolIdx = Len(response.tool_calls)
              /\ pc' = "NoResult"
              /\ result' = ReturnsNone
              /\ UNCHANGED << toolIdx, pending, arguments_str >>
    /\ UNCHANGED << env, clock, queries, logs, raw_logs, batch_i, refined_result,
                    chatCalls >>

(***************************************************************************)
(* A fetch_logs that does not look at the outcome of the request: a failed *)
(* request is read as an answer without data.                              *)
(***************************************************************************)
RetrieveUnchecked ==
    /\ pc = "Retrieving"
    /\ \E d \in 0..MaxTick :
        /\ clock' = clock + d
        /\ LET b == BuildQuery(variant, pending.container, pending.start_time,
                               pending.end_time, pending.limit, clock')
           IN  \/ /\ ConfigRaises(variant, config) \/ b.raised
                  /\ pc' = "Failed"
                  /\ result' = FailureResult(variant,
                                             IF ConfigRaises(variant, config)
                                             THEN Err("Configuration", "", 0, 0)
                                             ELSE Err("TypeError", "", 0, 0),
                                             CurrentTool.arguments)
                  /\ UNCHANGED << queries, logs >>
               \/ /\ ~ConfigRaises(variant, config)
                  /\ ~b.raised
                  /\ queries' = IF UrlRaises(config) THEN queries
                                ELSE Append(queries, b.query)
                  /\ logs' = store.result
                  /\ pc' = "Normalizing"
                  /\ result' = result
    /\ UNCHANGED << env, now, toolIdx, pending, arguments_str, raw_logs, batch_i,
                    refined_result, chatCalls >>

(***************************************************************************)
(* Retrieve: fetch_logs.  It reads the clock again (the clock may have     *)
(* advanced), builds the URL, sends the request and raises on a failure.   *)
(***************************************************************************)
Retrieve ==
    /\ pc = "Retrieving"
    /\ \E d \in 0..MaxTick :
        /\ clock' = clock + d
        /\ LET b == BuildQuery(variant, pending.container, pending.start_time,
                               pending.end_time, pending.limit, clock')
           IN  \/ /\ ConfigRaises(variant, config) \/ b.raised
                  /\ pc' = "Failed"
                  /\ result' = FailureResult(variant,
                                             IF ConfigRaises(variant, config)
                                             THEN Err("Configuration", "", 0, 0)
                                             ELSE Err("TypeError", "", 0, 0),
                                             CurrentTool.arguments)
                  /\ UNCHANGED << queries, logs >>
               \/ /\ ~ConfigRaises(variant, config)
                  /\ ~b.raised
                  /\ UrlRaises(config)
                  /\ pc' = "Failed"
                  /\ result' = FailureResult(variant, Err("MissingSchema", "", 0, 0),
                                             CurrentTool.arguments)
                  /\ UNCHANGED << queries, logs >>
               \/ /\ ~ConfigRaises(variant, config)
                  /\ ~b.raised
                  /\ ~UrlRaises(config)
                  /\ store.kind = "ok"
                  /\ queries' = Append(queries, b.query)
                  /\ logs' = store.result
                  /\ pc' = "Normalizing"
                  /\ result' = result
               \/ /\ ~ConfigRaises(variant, config)
                  /\ ~b.raised
                  /\ ~UrlRaises(config)
                  /\ store.kind # "ok"
                  /\ queries' = Append(queries, b.query)
                  /\ pc' = "Failed"
                  /\ result' = FailureResult(variant,
                                             Err("Retrieval", store.kind, 0, store.status),
                                             CurrentTool.arguments)
                  /\ logs' = logs
    /\ UNCHANGED << env, now, toolIdx, pending, arguments_str, raw_logs, batch_i,
                    refined_result, chatCalls >>

(***************************************************************************)
(* Normalize: data.result is flattened into raw_logs; the variants differ  *)
(* in the timestamp conversion and in what they do with nothing to show.   *)
(***************************************************************************)
\* app.py 93-105 and terminal_run.py 96-109
NormalizeSeconds ==
    /\ variant \in { "app", "terminal_run" }
    /\ \/ /\ logs = <<>>
          /\ pc' = "EmptyTerminal"
          /\ result' = IF variant = "app"
                       THEN Result("triple", arguments_str, Raw("nologs", <<>>), NoText)
                       ELSE Result("string", EmptyDisplay, NoRaw,
                                   Text("nologs", NoErr, <<>>, <<>>))
          /\ raw_logs' = raw_logs
       \/ /\ logs # <<>>
          /\ raw_logs' = Flatten(logs, TRUE)
          /\ pc' = "Analyzing"
          /\ result' = result

\* batch_process.py 105-117
NormalizeBatch ==
    /\ variant = "batch_process"
    /\ \/ /\ logs = <<>>
          /\ pc' = "EmptyTerminal"
          /\ result' = Result("string", EmptyDisplay, NoRaw, Text("nologs", NoErr, <<>>, <<>>))
          /\ raw_logs' = raw_logs
       \/ /\ logs # <<>>
          /\ Flatten(logs, FALSE) = <<>>
          /\ raw_logs' = <<>>
          /\ pc' = "EmptyTerminal"
          /\ result' = Result("string", EmptyDisplay, NoRaw,
                              Text("nologs_criteria", NoErr, <<>>, <<>>))
       \/ /\ logs # <<>>
          /\ Flatten(logs, FALSE) # <<>>
          /\ raw_logs' = Flatten(logs, FALSE)
          /\ pc' = "Analyzing"
          /\ result' = result

\* colab_run.py 124-129 and enhanced_colab_run.py 147-149
NormalizeAsIs ==
    /\ variant \in FilteringVariants
    /\ raw_logs' = Flatten(logs, FALSE)
    /\ pc' = "Analyzing"
    /\ result' = result

Normalize ==
    /\ pc = "Normalizing"
    /\ (NormalizeSeconds \/ NormalizeBatch \/ NormalizeAsIs)
    /\ UNCHANGED << env, clock, now, toolIdx, pending, arguments_str, queries, logs,
                    batch_i, refined_result, chatCalls >>

(***************************************************************************)
(* Analyze: the analysis chat call(s).                                     *)
(***************************************************************************)
\* raw_logs_str of the variants with one analysis call
RawLogsStr(v, lines) ==
    IF lines # <<>> THEN Raw("lines", lines)
    ELSE IF v \in FilteringVariants THEN Raw("nologs", <<>>) ELSE NoRaw

\* The one analysis call of app.py 107-124, terminal_run.py 113-131,
\* colab_run.py 132-170 and enhanced_colab_run.py 151-174.
AnalyzeOnce ==
    /\ variant # "batch_process"
    /\ chatCalls' = Append(chatCalls, ChatCall("analysis", 1, raw_logs))
    /\ \/ /\ failAt # 1
          /\ pc' = "Done"
          /\ refined_result' = ReplyText(replyShape, 1)
          /\ result' =
                IF variant = "terminal_run"
                THEN Result("string", EmptyDisplay, NoRaw,
                            Text("analysis", NoErr, refined_result', <<>>))
                ELSE Result(ShapeOf(variant), arguments_str, RawLogsStr(variant, raw_logs),
                            Text("analysis", NoErr, refined_result', <<>>))
       \/ /\ failAt = 1
          /\ pc' = "Failed"
          /\ refined_result' = refined_result
          /\ result' =
                CASE variant = "app" ->
                        Result("triple", arguments_str, RawLogsStr(variant, raw_logs),
                               Text("error", Err("Analysis", "", 0, 0), <<>>, <<>>))
                  [] variant = "terminal_run" ->
                        Result("string", EmptyDisplay, NoRaw,
                               Text("error", Err("Analysis", "", 0, 0), <<>>, raw_logs))
                  [] OTHER ->
                        FailureResult(variant, Err("Analysis", "", 0, 0), CurrentTool.arguments)
    /\ batch_i' = batch_i

\* The batch loop with `refined_result = batch_result + "\n"`: each reply
\* replaces the text so far.
AnalyzeBatchOverwrite ==
    /\ variant = "batch_process"
    /\ LET batch == Slice(raw_logs, batch_i, batch_size)
           k == batch_i \div batch_size + 1
       IN  /\ chatCalls' = Append(chatCalls, ChatCall("analysis", k, batch))
           /\ \/ /\ failAt # k
                 /\ refined_result' = ReplyText(replyShape, k) \o << Newline >>
                 /\ batch_i' = batch_i + batch_size
                 /\ \/ /\ batch_i' < Len(raw_logs)
                       /\ UNCHANGED << pc, result >>
                    \/ /\ batch_i' >= Len(raw_logs)
                       /\ pc' = "Done"
                       /\ result' = Result("string", EmptyDisplay, NoRaw,
                                           Text("analysis", NoErr, Strip(refined_result'), <<>>))
              \/ /\ failAt = k
                 /\ pc' = "Failed"
                 /\ result' = Result("string", EmptyDisplay, NoRaw,
                                     Text("error", Err("Analysis", "", 0, 0), <<>>, batch))
                 /\ UNCHANGED << refined_result, batch_i >>

\* One iteration of the batch loop of batch_process.py 123-152, with the
\* return after the last batch.
AnalyzeBatch ==
    /\ variant = "batch_process"
    /\ LET batch == Slice(raw_logs, batch_i, batch_size)
           k == batch_i \div batch_size + 1
       IN  /\ chatCalls' = Append(chatCalls, ChatCall("analysis", k, batch))
           /\ \/ /\ failAt # k
                 /\ refined_result' = refined_result \o ReplyText(replyShape, k) \o << Newline >>
                 /\ batch_i' = batch_i + batch_size
                 /\ \/ /\ batch_i' < Len(raw_logs)
                       /\ UNCHANGED << pc, result >>
                    \/ /\ batch_i' >= Len(raw_logs)
                       /\ pc' = "Done"
                       /\ result' = Result("string", EmptyDisplay, NoRaw,
                                           Text("analysis", NoErr, Strip(refined_result'), <<>>))
              \/ /\ failAt = k
                 /\ pc' = "Failed"
                 /\ result' = Result("string", EmptyDisplay, NoRaw,
                                     Text("error", Err("Analysis", "", 0, 0), <<>>, batch))
                 /\ UNCHANGED << refined_result, batch_i >>

Analyze ==
    /\ pc = "Analyzing"
    /\ (AnalyzeOnce \/ AnalyzeBatch)
    /\ UNCHANGED << env, clock, now, toolIdx, pending, arguments_str, queries, logs,
                    raw_logs >>

(***************************************************************************)
(* The environment's answers the model is run on.                          *)
(***************************************************************************)
Args(c, st, en, li) == [container |-> c, start_time |-> st, end_time |-> en, limit |-> li]
Tool(name, args) == [name |-> name, arguments |-> args]

ContainerInputs ==
    { CStr("/staging-cobi-v2"), CStr("staging-cobi-v2"), CStr("cobi v2"),
      CStr("staging cobi v2"), CStr("totally-unknown"), CStr("/quote-staging"), CAbsent }

\* (start_time, end_time) as the model may emit them; the request is made at
\* 1744006029.
TimePairs ==
    { << Absent, Absent >>,
      << IntV(1744002429), IntV(1744006029) >>,
      << IntV(1744006029), IntV(1744002429) >>,
      << IntV(0), Absent >>,
      << Absent, IntV(0) >>,
      << IntV(1700000000), IntV(1744006029) >>,
      << IntV(1744016029), Absent >>,
      << IntV(1744016029), IntV(1744026029) >>,
      << DigitsV(1744002429), DigitsV(1744006029) >>,
      << TextV, Absent >>,
      << IntV(1744002429), TextV >>,
      << EmptyV, Absent >>,
      << IntV(1744002429), EmptyV >>,
      << None, None >> }

Limits ==
    { Absent, None, IntV(50), IntV(LimitMaximum), IntV(LimitMaximum + 1), IntV(0),
      DigitsV(50), TextV, EmptyV }

DefaultArgs == Args(CStr("/staging-cobi-v2"), Absent, Absent, Absent)

RichArgs ==
    { Args(c, Absent, Absent, Absent) : c \in ContainerInputs }
    \cup { Args(CStr("/staging-cobi-v2"), tp[1], tp[2], li) : tp \in TimePairs, li \in Limits }

GoodTool == Tool("fetch_logs", DefaultArgs)
OtherTool ==
    Tool("fetch_logs", Args(CStr("/staging-quote"), IntV(1744002429), IntV(1744006029), IntV(7)))
UnknownTool == Tool("delete_logs", DefaultArgs)

ToolsResponse(calls) == [kind |-> "tools", tool_calls |-> calls]
ErrorResponse == [kind |-> "error", tool_calls |-> <<>>]
ContentResponse == [kind |-> "content", tool_calls |-> <<>>]

CallSeqs ==
    UNION { [1..n -> { GoodTool, OtherTool, UnknownTool }] : n \in 0..MaxCalls }

ResponsesRich == { ToolsResponse(<< Tool("fetch_logs", a) >>) : a \in RichArgs }
ResponsesPlain ==
    { ErrorResponse, ContentResponse } \cup { ToolsResponse(cs) : cs \in CallSeqs }

\* The container strings that are no element of CONTAINERS once normalized:
\* for these the scorer's answer decides.
NeedsScorer(r) ==
    /\ r.kind = "tools"
    /\ r.tool_calls # <<>>
    /\ r.tool_calls[1].arguments.container.s \in { "cobi v2", "totally-unknown" }

LowScores == [i \in 1..Len(CONTAINERS) |-> 40]
ScoreVectors ==
    { [i \in 1..Len(CONTAINERS) |-> IF i \in H THEN sc ELSE 40] :
        H \in { { 2 }, { 6, 7 } },
        sc \in { FUZZY_MATCH_THRESHOLD - 1, FUZZY_MATCH_THRESHOLD, 90 } }

\* The i-th [timestamp, message] pair of a stream.  Pairs 2j and 2j+1 are
\* equal, and every stream starts again at the first timestamp.
Value(i) ==
    LET j == i \div 2
    IN  [ts |-> Ts(1744002500 + 100 * j,
                   CASE j % 3 = 0 -> 0 [] j % 3 = 1 -> 500000000 [] OTHER -> 999999900),
         msg |-> j % 3]
Stream(len) == [i \in 1..len |-> Value(i)]

OkStore(lens) == [kind |-> "ok", status |-> 200, result |-> [i \in DOMAIN lens |-> Stream(lens[i])]]
FailingStores ==
    { [kind |-> "http", status |-> 500, result |-> <<>>],
      [kind |-> "http", status |-> 404, result |-> <<>>],
      [kind |-> "transport", status |-> 0, result |-> <<>>] }

StreamLens == { 0, 2, batch_size, batch_size + 1 }
SmallStores ==
    { OkStore(<<>>), OkStore(<< 2 >>), [kind |-> "http", status |-> 500, result |-> <<>>] }
AllStores ==
    FailingStores
    \cup { OkStore(lens) : lens \in UNION { [1..n -> StreamLens] : n \in 0..MaxStreams } }
    \cup { OkStore(<< batch_size, batch_size, 20 >>) }

(***************************************************************************)
(* Init: the state when process_prompt is entered.  Either the model's     *)
(* answer is varied (against a few store answers), or the store's answer   *)
(* and the failing analysis call are varied (against the plain             *)
(* invocation), or the configuration is varied.                            *)
(***************************************************************************)
InitProgram ==
    /\ rid = 1
    /\ clock = 1744006029
    /\ now = 0
    /\ pc = "Interpreting"
    /\ toolIdx = 1
    /\ pending = ResolveSkip
    /\ arguments_str = EmptyDisplay
    /\ queries = <<>>
    /\ logs = <<>>
    /\ raw_logs = <<>>
    /\ batch_i = 0
    /\ refined_result = <<>>
    /\ chatCalls = <<>>
    /\ result = Pending

Init ==
    /\ variant \in Variants
    /\ parked = <<>>
    /\ \/ /\ config = Config("set", "set")
          /\ replyShape = "plain"
          /\ prompt \in Prompts
          /\ response \in ResponsesRich \cup ResponsesPlain
          /\ store \in SmallStores
          /\ failAt \in 0..1
       \/ /\ config = Config("set", "set")
          /\ replyShape \in IF variant = "batch_process" THEN ReplyShapes ELSE { "plain" }
          /\ prompt \in { << "fetch", "logs" >>, << "logs", "from", "until", "Limit" >> }
          /\ response = ToolsResponse(<< GoodTool >>)
          /\ store \in AllStores
          /\ failAt \in 0..MaxFailAt
       \/ /\ config \in Configs
          /\ replyShape \in { "plain", "padded" }
          /\ prompt = << "fetch", "logs" >>
          /\ response \in ResponsesPlain
          /\ store \in SmallStores
          /\ failAt \in 0..1
    /\ scores \in IF variant = "enhanced_colab_run" /\ NeedsScorer(response)
                  THEN ScoreVectors ELSE { LowScores }
    /\ InitProgram

Next == Interpret \/ ResolveArgs \/ Retrieve \/ Normalize \/ Analyze

Spec == Init /\ [][Next]_vars

(***************************************************************************)
(* Two requests in one process.  Every name process_prompt and fetch_logs  *)
(* assign is a local of the call, so each request has its own frame; the   *)
(* module-level names (CONTAINERS, the tool contract, the thresholds,      *)
(* BASE_URL, API_TOKEN) are read only, and the clock is the machine's.     *)
(* The variables above are the frame of the running request; Switch is the *)
(* runtime passing control to the other request between two steps.         *)
(***************************************************************************)
Frame(id, p, resp, sv, st, fa, n, stage, idx, pend, disp, qs, lg, rl, bi, rr, cc, res) ==
    [rid |-> id, prompt |-> p, response |-> resp, scores |-> sv, store |-> st,
     failAt |-> fa, now |-> n, pc |-> stage, toolIdx |-> idx, pending |-> pend,
     arguments_str |-> disp, queries |-> qs, logs |-> lg, raw_logs |-> rl,
     batch_i |-> bi, refined_result |-> rr, chatCalls |-> cc, result |-> res]

CurrentFrame ==
    Frame(rid, prompt, response, scores, store, failAt, now, pc, toolIdx, pending,
          arguments_str, queries, logs, raw_logs, batch_i, refined_result, chatCalls,
          result)

\* The frame of a request that has not started.
StartFrame(id, in) ==
    Frame(id, in.prompt, in.response, LowScores, in.store, in.failAt, 0, "Interpreting",
          1, ResolveSkip, EmptyDisplay, <<>>, <<>>, <<>>, 0, <<>>, <<>>, Pending)

\* A switch under which arguments_str is one process-wide name instead of
\* a local of the call: the running request finds what the other left in it.
SwitchSharedDisplay ==
    /\ parked # <<>>
    /\ parked[1].pc \notin Terminal
    /\ parked' = << CurrentFrame >>
    /\ rid' = parked[1].rid
    /\ prompt' = parked[1].prompt
    /\ response' = parked[1].response
    /\ scores' = parked[1].scores
    /\ store' = parked[1].store
    /\ failAt' = parked[1].failAt
    /\ now' = parked[1].now
    /\ pc' = parked[1].pc
    /\ toolIdx' = parked[1].toolIdx
    /\ pending' = parked[1].pending
    /\ arguments_str' = arguments_str
    /\ queries' = parked[1].queries
    /\ logs' = parked[1].logs
    /\ raw_logs' = parked[1].raw_logs
    /\ batch_i' = parked[1].batch_i
    /\ refined_result' = parked[1].refined_result
    /\ chatCalls' = parked[1].chatCalls
    /\ result' = parked[1].result
    /\ UNCHANGED << variant, config, replyShape, clock >>

\* The other request, which has not ended, runs next: the running request's
\* frame is saved and the other's restored.
Switch ==
    /\ parked # <<>>
    /\ parked[1].pc \notin Terminal
    /\ parked' = << CurrentFrame >>
    /\ rid' = parked[1].rid
    /\ prompt' = parked[1].prompt
    /\ response' = parked[1].response
    /\ scores' = parked[1].scores
    /\ store' = parked[1].store
    /\ failAt' = parked[1].failAt
    /\ now' = parked[1].now
    /\ pc' = parked[1].pc
    /\ toolIdx' = parked[1].toolIdx
    /\ pending' = parked[1].pending
    /\ arguments_str' = parked[1].arguments_str
    /\ queries' = parked[1].queries
    /\ logs' = parked[1].logs
    /\ raw_logs' = parked[1].raw_logs
    /\ batch_i' = parked[1].batch_i
    /\ refined_result' = parked[1].refined_result
    /\ chatCalls' = parked[1].chatCalls
    /\ result' = parked[1].result
    /\ UNCHANGED << variant, config, replyShape, clock >>

\* Time passes while a request waits for ollama.chat or requests.get to
\* answer, or between one request and the other: the machine's clock moves
\* on by a second and no frame changes.  The first request is made at
\* 1744006029.
Tick ==
    /\ pc \notin Terminal \/ (parked # <<>> /\ parked[1].pc \notin Terminal)
    /\ clock < 1744006029 + MaxWait
    /\ clock' = clock + 1
    /\ UNCHANGED << env, now, pc, toolIdx, pending, arguments_str, queries, logs,
                    raw_logs, batch_i, refined_result, chatCalls, result >>

Input(p, resp, st, fa) == [prompt |-> p, response |-> resp, store |-> st, failAt |-> fa]

\* The requests the two-request runs are made of.
TwoInputs ==
    { Input(<< "fetch", "logs" >>, ToolsResponse(<< GoodTool >>), OkStore(<< 2 >>), 0),
      Input(<< "logs", "from", "until", "Limit" >>, ToolsResponse(<< OtherTool >>),
            OkStore(<< batch_size + 1 >>), 0),
      Input(<< "logs", "from", "until", "Limit" >>, ToolsResponse(<< OtherTool >>),
            OkStore(<< batch_size + 1 >>), 2),
      Input(<< "fetch", "logs" >>, ToolsResponse(<< GoodTool >>),
            [kind |-> "http", status |-> 500, result |-> <<>>], 0),
      Input(<< "fetch", "logs" >>, ToolsResponse(<< UnknownTool, GoodTool >>),
            OkStore(<< 2 >>), 1),
      Input(<< "fetch", "logs" >>,
            ToolsResponse(<< Tool("fetch_logs", Args(CStr("cobi v2"), Absent, Absent, Absent)) >>),
            OkStore(<<>>), 0),
      Input(<< "show", "history" >>, ContentResponse, OkStore(<<>>), 0),
      Input(<< "fetch", "logs" >>, ErrorResponse, OkStore(<<>>), 0) }

InitTwo ==
    /\ variant \in Variants
    /\ config = Config("set", "set")
    /\ replyShape = "plain"
    /\ scores = LowScores
    /\ \E a \in TwoInputs :
          /\ prompt = a.prompt
          /\ response = a.response
          /\ store = a.store
          /\ failAt = a.failAt
    /\ \E b \in TwoInputs : parked = << StartFrame(2, b) >>
    /\ InitProgram

NextTwo == Interpret \/ ResolveArgs \/ Retrieve \/ Normalize \/ Analyze \/ Switch \/ Tick

SpecTwo == InitTwo /\ [][NextTwo]_vars

(***************************************************************************)
(* Properties                                                              *)
(***************************************************************************)
LastQuery == queries[Len(queries)]

\* The model emitted start_time and end_time as integers or not at all.
IntegerTimes(args) ==
    /\ args.start_time.t \in { "absent", "int" }
    /\ args.end_time.t \in { "absent", "int" }

\* C1: in every query sent to the log store for a request whose invocation
\* has integer or absent start_time and end_time, start <= end and
\* end - start <= 30 * 24 * 3600.
C1_QueryRangeBounded ==
    \A i \in 1..Len(queries) :
        IntegerTimes(CurrentTool.arguments) =>
            /\ queries[i].start.t = "int"
            /\ queries[i].end.t = "int"
            /\ queries[i].start.n <= queries[i].end.n
            /\ queries[i].end.n - queries[i].start.n <= MAX_LOOKBACK

\* C2: the container of every query sent to the log store is an element of
\* CONTAINERS, and a request that fails on its container names the closest
\* candidate with its score and has sent no query.
C2_ContainerInEnumeration ==
    /\ \A i \in 1..Len(queries) : queries[i].container \in ContainerSet
    /\ (pc = "Failed" /\ result.text.err.kind = "InvalidContainer") =>
            /\ queries = <<>>
            /\ result.text.err.candidate \in ContainerSet

\* C3: the limit of every query sent to the log store is an integer between
\* 1 and 5000.
C3_LimitInRange ==
    \A i \in 1..Len(queries) :
        /\ Rendered(queries[i].limit).t = "number"
        /\ 1 <= queries[i].limit.n
        /\ queries[i].limit.n <= LimitMaximum

\* The invocation with the values of the fields whose keyword family is not
\* in the prompt taken out.
WithoutUnasked(p, tool) ==
    Tool(tool.name,
         Args(tool.arguments.container,
              IF has_start(p) THEN tool.arguments.start_time ELSE Absent,
              IF has_end(p) THEN tool.arguments.end_time ELSE Absent,
              IF has_limit(p) THEN tool.arguments.limit ELSE Absent))

\* C4: the query sent to the log store is the query the same request gives
\* when the model does not supply the fields the prompt has no keyword for.
C4_UnaskedFieldsDiscarded ==
    queries # <<>> =>
        LET r == Resolve(variant, prompt, WithoutUnasked(prompt, CurrentTool), now, scores)
            b == BuildQuery(variant, r.container, r.start_time, r.end_time, r.limit, clock)
        IN  /\ r.outcome = "call"
            /\ ~b.raised
            /\ LastQuery = b.query

\* The store has answered the query with success.
Retrieved == queries # <<>> /\ store.kind = "ok"

\* The fixed no-logs-found message as the request's outcome.
NoLogsMessage(res) ==
    \/ res.text.kind \in { "nologs", "nologs_criteria" }
    \/ res.raw.kind = "nologs" /\ res.text.kind = "empty"

\* C5: when the flattened record sequence is empty no analysis chat call is
\* made, and the request ends with the no-logs-found message.
C5_EmptySkipsAnalysis ==
    (Retrieved /\ Flatten(logs, FALSE) = <<>>) =>
        /\ AnalysisCalls = <<>>
        /\ pc \in Terminal => (pc = "EmptyTerminal" /\ NoLogsMessage(result))

\* C6: when the chat call of batch k fails, k analysis calls have been made
\* and the returned error holds all the records retrieved for the request.
C6_BatchFailureKeepsAllRecords ==
    (variant = "batch_process" /\ pc = "Failed" /\ result.text.err.kind = "Analysis") =>
        /\ Len(AnalysisCalls) = failAt
        /\ result.text.lines = raw_logs

\* ceil(n / batch_size)
CeilBatches(n) == (n + batch_size - 1) \div batch_size

RECURSIVE ConcatLines(_)
ConcatLines(calls) ==
    IF calls = <<>> THEN <<>> ELSE Head(calls).lines \o ConcatLines(Tail(calls))

\* C7: the batches handed to the analysis calls of batch_process are the
\* contiguous runs of 50 records of raw_logs in order (the last one may be
\* shorter), and once all are analysed their concatenation is raw_logs and
\* their number is ceil(N / 50).
C7_BatchPartition ==
    variant = "batch_process" =>
        /\ \A k \in 1..Len(AnalysisCalls) :
              /\ AnalysisCalls[k].lines =
                    SubSeq(raw_logs, batch_size * (k - 1) + 1,
                           IF batch_size * k < Len(raw_logs) THEN batch_size * k
                           ELSE Len(raw_logs))
              /\ Len(AnalysisCalls[k].lines) >= 1
              /\ k < CeilBatches(Len(raw_logs)) => Len(AnalysisCalls[k].lines) = batch_size
        /\ pc = "Done" =>
              /\ Len(AnalysisCalls) = CeilBatches(Len(raw_logs))
              /\ ConcatLines(AnalysisCalls) = raw_logs

\* C7 witness: 120 records were analysed in batches of 50, 50 and 20.
C7_Witness ==
    /\ variant = "batch_process"
    /\ pc = "Done"
    /\ Len(raw_logs) = 120
    /\ Len(AnalysisCalls) = 3
    /\ Len(AnalysisCalls[1].lines) = 50
    /\ Len(AnalysisCalls[2].lines) = 50
    /\ Len(AnalysisCalls[3].lines) = 20

\* C8: at most one query is sent per request, it is built from the first
\* invocation, and when the first invocation names an unknown capability
\* neither a query nor an analysis call is made.
C8_OnlyFirstInvocation ==
    /\ Len(queries) <= 1
    /\ queries # <<>> => toolIdx = 1
    /\ (response.kind = "tools" /\ response.tool_calls # <<>>
            /\ response.tool_calls[1].name \notin available_functions) =>
          (queries = <<>> /\ AnalysisCalls = <<>>)

\* C9: when the store answers a query with a failure, the request has ended
\* in a retrieval error carrying the store's status, and no analysis chat
\* call has been made.
C9_RetrievalFailureStops ==
    (queries # <<>> /\ store.kind # "ok") =>
        /\ pc = "Failed"
        /\ result.shape \in { "triple", "six", "string" }
        /\ result.text.kind = "error"
        /\ result.text.err.kind = "Retrieval"
        /\ result.text.err.candidate = store.kind
        /\ result.text.err.status = store.status
        /\ AnalysisCalls = <<>>

\* C9 witness: the store answered HTTP 500 and the request ended with the
\* retrieval error.
C9_Witness ==
    /\ queries # <<>>
    /\ store.kind = "http"
    /\ store.status = 500
    /\ pc = "Failed"
    /\ result.text.err.kind = "Retrieval"
    /\ result.text.err.status = 500

\* C10: a returned display string shows the container, start, end and limit
\* of the query that was sent, and never the model's raw argument mapping.
C10_DisplayShowsQuery ==
    /\ result.args.form # "raw"
    /\ (queries # <<>> /\ result.args.form = "used") =>
          /\ result.args.container = CStr(LastQuery.container)
          /\ Rendered(result.args.start_time) = Rendered(LastQuery.start)
          /\ Rendered(result.args.end_time) = Rendered(LastQuery.end)
          /\ Rendered(result.args.limit) = Rendered(LastQuery.limit)

\* The model's value for a field does not count: the key is not in the
\* mapping, or the prompt has no keyword of the field's family.
DefaultedStart(p, args) == args.start_time.t = "absent" \/ ~has_start(p)
DefaultedEnd(p, args) == args.end_time.t = "absent" \/ ~has_end(p)
DefaultedLimit(p, args) == args.limit.t = "absent" \/ ~has_limit(p)

\* C11: in the query sent to the log store, a limit that is not honored or
\* not supplied is 100; a start_time and an end_time that are both not
\* honored or not supplied are now - 3600 and now, for the now that fetch_logs
\* read; and when only one of the two is, it is that default and the other
\* is the integer the model gave, as long as the two are in order and no
\* more than 30 days apart.
C11_DefaultsUsed ==
    queries # <<>> =>
        LET a == CurrentTool.arguments
            q == LastQuery
        IN  /\ DefaultedLimit(prompt, a) => q.limit = IntV(DEFAULT_LIMIT)
            /\ (DefaultedStart(prompt, a) /\ DefaultedEnd(prompt, a)) =>
                  (q.start = IntV(clock - DEFAULT_TIME_RANGE) /\ q.end = IntV(clock))
            /\ (DefaultedStart(prompt, a) /\ ~DefaultedEnd(prompt, a)
                    /\ a.end_time.t = "int"
                    /\ clock - DEFAULT_TIME_RANGE <= a.end_time.n
                    /\ a.end_time.n - (clock - DEFAULT_TIME_RANGE) <= MAX_LOOKBACK) =>
                  (q.start = IntV(clock - DEFAULT_TIME_RANGE) /\ q.end = a.end_time)
            /\ (DefaultedEnd(prompt, a) /\ ~DefaultedStart(prompt, a)
                    /\ a.start_time.t = "int"
                    /\ a.start_time.n # 0
                    /\ a.start_time.n <= clock
                    /\ clock - a.start_time.n <= MAX_LOOKBACK) =>
                  (q.start = a.start_time /\ q.end = IntV(clock))

\* C12: a call of process_prompt that returns hands back the three-part
\* result (display string, raw log text, analysis text; the variants that
\* time their steps append the three timings), and on an empty result the
\* no-logs-found message is in the analysis position.  An exception that
\* leaves process_prompt is the subject of C19.
C12_ThreePartResult ==
    (pc \in Terminal /\ result.shape # "raised") =>
        /\ result.shape \in { "triple", "six" }
        /\ pc = "EmptyTerminal" => result.text.kind \in { "nologs", "nologs_criteria" }

\* The transitions of the per-request state machine.
StageEdges ==
    { << "Interpreting", "Answered" >>, << "Interpreting", "Resolving" >>,
      << "Resolving", "Retrieving" >>, << "Retrieving", "Normalizing" >>,
      << "Normalizing", "EmptyTerminal" >>, << "Normalizing", "Analyzing" >>,
      << "Analyzing", "Done" >> }
    \cup { << st, "Failed" >> :
             st \in { "Interpreting", "Resolving", "Retrieving", "Normalizing", "Analyzing" } }

\* C13: every change of stage is a transition of the state machine
\* Interpreting -> {Answered | Resolving} -> Retrieving -> Normalizing ->
\* {EmptyTerminal | Analyzing} -> Done, or a transition from a stage to
\* Failed (so no stage is entered twice); a request that has ended is in one
\* of Answered, EmptyTerminal, Done and Failed; a query has been sent only
\* after the resolution succeeded, and an analysis call has been made only
\* after the store answered the query with success.
C13_StageOrder ==
    [][ /\ pc' # pc => << pc, pc' >> \in StageEdges
        /\ result' # Pending => pc' \in { "Answered", "EmptyTerminal", "Done", "Failed" }
        /\ queries' # <<>> => (pending'.outcome = "call" /\ chatCalls' # <<>>)
        /\ Len(chatCalls') > 1 => (queries' # <<>> /\ store'.kind = "ok")
      ]_vars

\* The configuration lacks the credentials or the base URL.
ConfigMissing == config.TOKEN = "missing" \/ config.BASE_URL = "missing"

\* C14: with the token or the base URL missing from the configuration, no
\* chat call is made and no query is sent, and the request ends with a
\* configuration error.
C14_ConfigErrorBeforeNetwork ==
    ConfigMissing =>
        /\ chatCalls = <<>>
        /\ queries = <<>>
        /\ pc \in Terminal => (pc = "Failed" /\ result.text.err.kind = "Configuration")

RECURSIVE PairsBefore(_, _)
\* The number of [timestamp, message] pairs in the streams before stream i.
PairsBefore(streams, i) ==
    IF i <= 1 THEN 0 ELSE PairsBefore(streams, i - 1) + Len(streams[i - 1])

\* The line was made from the pair: the same message, and the pair's
\* timestamp, as returned or as its seconds (give or take the rounding).
LineOfPair(line, val) ==
    /\ line.msg = val.msg
    /\ \/ line.unit = "ns" /\ line.s = val.ts.s /\ line.ns = val.ts.ns
       \/ line.unit = "s" /\ line.s \in { val.ts.s, val.ts.s + 1 }

\* The request has gone through normalization with something to flatten.
Normalized ==
    /\ logs # <<>>
    /\ \/ pc \in { "Analyzing", "Done", "EmptyTerminal" }
       \/ pc = "Failed" /\ result.text.err.kind = "Analysis"

\* C15: after normalization raw_logs has one line per [timestamp, message]
\* pair of the store's answer, and the line of the j-th pair of the i-th
\* stream stands after the lines of all earlier streams and of the earlier
\* pairs of its stream: nothing is reordered, dropped or deduplicated.
C15_FlattenInOrder ==
    Normalized =>
        /\ Len(raw_logs) = PairsBefore(logs, Len(logs) + 1)
        /\ \A i \in 1..Len(logs) : \A j \in 1..Len(logs[i]) :
              LineOfPair(raw_logs[PairsBefore(logs, i) + j], logs[i][j])

\* C15 witness: two streams of 51 and 2 pairs were flattened into 53 lines;
\* the equal neighbours 2 and 3 are both there, and the second stream's
\* lines, equal to lines 1 and 2, follow the first stream's.
C15_Witness ==
    /\ pc = "Analyzing"
    /\ Len(logs) = 2
    /\ Len(logs[1]) = 51
    /\ Len(logs[2]) = 2
    /\ logs[1][2] = logs[1][3]
    /\ Len(raw_logs) = 53
    /\ raw_logs[2] = raw_logs[3]
    /\ raw_logs[52] = raw_logs[1]
    /\ raw_logs[53] = raw_logs[2]

\* C16: in the variants that convert nanoseconds, the line of every pair
\* shows the pair's timestamp integer-divided by 1,000,000,000, which for
\* the timestamp s * 10^9 + ns with 0 <= ns < 10^9 is s.
C16_SecondsByFloorDivision ==
    (variant \in { "app", "terminal_run" } /\ Normalized) =>
        \A i \in 1..Len(logs) : \A j \in 1..Len(logs[i]) :
            LET line == raw_logs[PairsBefore(logs, i) + j]
            IN  /\ line.unit = "s"
                /\ line.s = logs[i][j].ts.s

RECURSIVE JoinReplies(_, _)
\* The replies of the analysis calls 1..n, in order, with "\n" between them.
JoinReplies(shape, n) ==
    IF n = 0 THEN <<>>
    ELSE IF n = 1 THEN ReplyText(shape, 1)
    ELSE JoinReplies(shape, n - 1) \o << Newline >> \o ReplyText(shape, n)

\* The analysis calls so far are the calls for the batches 1, 2, ... in
\* order, one call each, and each but the last has returned its reply into
\* the accumulated text before the next was made.
BatchCallsInOrder ==
    /\ \A k \in 1..Len(AnalysisCalls) : AnalysisCalls[k].batch = k
    /\ Len(AnalysisCalls) <= CeilBatches(Len(raw_logs))
    /\ Len(SelectSeq(refined_result, LAMBDA c : c = Newline)) \in
          { Len(AnalysisCalls), Len(AnalysisCalls) - 1 }
    /\ pc = "Done" => Len(AnalysisCalls) = CeilBatches(Len(raw_logs))

\* C18 as stated: batch_process calls the model once per batch in batch
\* order, and when all calls succeed the final text is the replies joined
\* in batch order by the separator, with the trailing whitespace taken off.
C18_JoinedTrailingTrimmed ==
    variant = "batch_process" =>
        /\ BatchCallsInOrder
        /\ pc = "Done" =>
              result.text.replies = RStrip(JoinReplies(replyShape, Len(AnalysisCalls)))

\* C18 amended: as above, with the whitespace taken off both ends of the
\* final text.
C18_JoinedTrimmed ==
    variant = "batch_process" =>
        /\ BatchCallsInOrder
        /\ pc = "Done" =>
              /\ result.text.kind = "analysis"
              /\ LET joined == JoinReplies(replyShape, Len(AnalysisCalls))
                     first == CHOOSE i \in 1..(Len(joined) + 1) :
                                 /\ \A j \in 1..(i - 1) : IsSpace(joined[j])
                                 /\ i <= Len(joined) => ~IsSpace(joined[i])
                     last == CHOOSE i \in 0..Len(joined) :
                                 /\ \A j \in (i + 1)..Len(joined) : IsSpace(joined[j])
                                 /\ i >= 1 => ~IsSpace(joined[i])
                 IN  result.text.replies = SubSeq(joined, first, last)

\* C18 witness: three batches were analysed with replies that have blanks
\* around them, and the final text starts with the first reply's text and
\* ends with the third's.
C18_Witness ==
    /\ variant = "batch_process"
    /\ pc = "Done"
    /\ replyShape = "padded"
    /\ Len(AnalysisCalls) = 3
    /\ Head(result.text.replies) = Ch("x", 1)
    /\ result.text.replies[Len(result.text.replies)] = Ch("x", 3)
    /\ Len(result.text.replies) = 9

\* C19: when the interpretation chat call fails, the exception leaves
\* process_prompt as the request's outcome, the model has been called once,
\* and nothing was resolved, queried or analysed.
C19_InterpretationFailureEnds ==
    (response.kind = "error" /\ chatCalls # <<>>) =>
        /\ pc = "Failed"
        /\ result.shape = "raised"
        /\ result.text.err.kind = "Interpretation"
        /\ Len(chatCalls) = 1
        /\ pending = ResolveSkip
        /\ arguments_str = EmptyDisplay
        /\ queries = <<>>
        /\ AnalysisCalls = <<>>

\* C19 witness: the interpretation call failed and the request has ended.
C19_Witness ==
    /\ response.kind = "error"
    /\ Len(chatCalls) = 1
    /\ chatCalls[1].purpose = "interpret"
    /\ pc = "Failed"
    /\ result.shape = "raised"

\* A value the coercion leaves a str (or None) reached the URL as it is.
Unconverted(v) == v.t \in { "text", "empty", "digits", "none", "absent" }

\* C20: in every query sent to the log store, start, end and limit are
\* integers: a digit-only string the model gave was converted, and any
\* other value that is not an integer was rejected before the query.
C20_OnlyIntegersQueried ==
    \A i \in 1..Len(queries) :
        /\ ~Unconverted(queries[i].start)
        /\ ~Unconverted(queries[i].end)
        /\ ~Unconverted(queries[i].limit)

(***************************************************************************)
(* What one request produces when it runs alone: process_prompt followed   *)
(* from its first line to its return as one computation, for the clock     *)
(* reading t1 of process_prompt and t2 of fetch_logs.                      *)
(***************************************************************************)
Outcome(qs, chats, res) == [queries |-> qs, chats |-> chats, result |-> res]

RECURSIVE FirstResolved(_, _, _, _, _, _)
\* The loop over tool_calls up to the first invocation that is not skipped.
FirstResolved(v, p, calls, i, t1, sv) ==
    IF i > Len(calls) THEN [idx |-> 0, r |-> ResolveSkip]
    ELSE LET r == Resolve(v, p, calls[i], t1, sv)
         IN  IF r.outcome = "skip" THEN FirstResolved(v, p, calls, i + 1, t1, sv)
             ELSE [idx |-> i, r |-> r]

RECURSIVE BatchText(_, _)
BatchText(shape, n) ==
    IF n = 0 THEN <<>> ELSE BatchText(shape, n - 1) \o ReplyText(shape, n) \o << Newline >>

\* From the store's successful answer to the return.
AloneAnalysed(v, shape, f, display, args, q) ==
    LET seconds == v \in { "app", "terminal_run" }
        lines == Flatten(f.store.result, seconds)
        n == CeilBatches(Len(lines))
        failed == Err("Analysis", "", 0, 0)
    IN  CASE v \in FilteringVariants ->
                IF f.failAt = 1
                THEN Outcome(<< q >>, 2, FailureResult(v, failed, args))
                ELSE Outcome(<< q >>, 2,
                             Result("six", display, RawLogsStr(v, lines),
                                    Text("analysis", NoErr, ReplyText(shape, 1), <<>>)))
          [] v = "batch_process" ->
                IF f.store.result = <<>>
                THEN Outcome(<< q >>, 1,
                             Result("string", EmptyDisplay, NoRaw,
                                    Text("nologs", NoErr, <<>>, <<>>)))
                ELSE IF lines = <<>>
                THEN Outcome(<< q >>, 1,
                             Result("string", EmptyDisplay, NoRaw,
                                    Text("nologs_criteria", NoErr, <<>>, <<>>)))
                ELSE IF f.failAt \in 1..n
                THEN Outcome(<< q >>, 1 + f.failAt,
                             Result("string", EmptyDisplay, NoRaw,
                                    Text("error", failed, <<>>,
                                         SubSeq(lines, batch_size * (f.failAt - 1) + 1,
                                                IF batch_size * f.failAt < Len(lines)
                                                THEN batch_size * f.failAt ELSE Len(lines)))))
                ELSE Outcome(<< q >>, 1 + n,
                             Result("string", EmptyDisplay, NoRaw,
                                    Text("analysis", NoErr, Strip(BatchText(shape, n)), <<>>)))
          [] OTHER ->
                IF f.store.result = <<>>
                THEN Outcome(<< q >>, 1,
                             IF v = "app"
                             THEN Result("triple", display, Raw("nologs", <<>>), NoText)
                             ELSE Result("string", EmptyDisplay, NoRaw,
                                         Text("nologs", NoErr, <<>>, <<>>)))
                ELSE IF f.failAt = 1
                THEN Outcome(<< q >>, 2,
                             IF v = "app"
                             THEN Result("triple", display, RawLogsStr(v, lines),
                                         Text("error", failed, <<>>, <<>>))
                             ELSE Result("string", EmptyDisplay, NoRaw,
                                         Text("error", failed, <<>>, lines)))
                ELSE Outcome(<< q >>, 2,
                             IF v = "app"
                             THEN Result("triple", display, RawLogsStr(v, lines),
                                         Text("analysis", NoErr, ReplyText(shape, 1), <<>>))
                             ELSE Result("string", EmptyDisplay, NoRaw,
                                         Text("analysis", NoErr, ReplyText(shape, 1), <<>>)))

Alone(v, cfg, shape, f, t1, t2) ==
    LET calls == f.response.tool_calls
        fr == FirstResolved(v, f.prompt, calls, 1, t1, f.scores)
        args == calls[fr.idx].arguments
        b == BuildQuery(v, fr.r.container, fr.r.start_time, fr.r.end_time, fr.r.limit, t2)
    IN  CASE f.response.kind = "error" ->
                Outcome(<<>>, 1,
                        Result("raised", EmptyDisplay, NoRaw,
                               Text("error", Err("Interpretation", "", 0, 0), <<>>, <<>>)))
          [] f.response.kind = "content" -> Outcome(<<>>, 1, ContentResult(v))
          [] f.response.kind = "tools" /\ calls = <<>> ->
                Outcome(<<>>, 1, IF v \in FilteringVariants THEN ReturnsNone
                                 ELSE ContentResult(v))
          [] OTHER ->
                IF fr.idx = 0 THEN Outcome(<<>>, 1, ReturnsNone)
                ELSE IF fr.r.outcome = "error"
                THEN Outcome(<<>>, 1, FailureResult(v, fr.r.err, args))
                ELSE IF ConfigRaises(v, cfg)
                THEN Outcome(<<>>, 1, FailureResult(v, Err("Configuration", "", 0, 0), args))
                ELSE IF b.raised
                THEN Outcome(<<>>, 1, FailureResult(v, Err("TypeError", "", 0, 0), args))
                ELSE IF UrlRaises(cfg)
                THEN Outcome(<<>>, 1, FailureResult(v, Err("MissingSchema", "", 0, 0), args))
                ELSE IF f.store.kind # "ok"
                THEN Outcome(<< b.query >>, 1,
                             FailureResult(v, Err("Retrieval", f.store.kind, 0, f.store.status),
                                           args))
                ELSE AloneAnalysed(v, shape, f, fr.r.display, args, b.query)

\* The request of frame f has ended with the queries, the number of chat
\* calls and the result it produces alone, for the clock reading its
\* process_prompt took and some reading of its fetch_logs since then.
EndedAsAlone(f) ==
    f.pc \in Terminal =>
        \E t2 \in (IF f.now = 0 THEN { clock } ELSE f.now..clock) :
            LET o == Alone(variant, config, replyShape, f,
                           IF f.now = 0 THEN clock ELSE f.now, t2)
            IN  /\ f.queries = o.queries
                /\ Len(f.chatCalls) = o.chats
                /\ f.result = o.result

\* C17: with two requests interleaved in any way, each request that has
\* ended has sent the query and returned the result it produces when it
\* runs alone on the same answers of the model and the store.
C17_RequestsDoNotInterfere ==
    /\ Len(parked) = 1
    /\ EndedAsAlone(CurrentFrame)
    /\ EndedAsAlone(parked[1])

\* C17 witness: both requests have ended, each after a query of its own,
\* and the running request's fetch_logs read the clock later than a step of
\* its own could make it: the other request's fetch came in between its
\* resolve and its fetch.
C17_Witness ==
    /\ Len(parked) = 1
    /\ pc \in Terminal
    /\ parked[1].pc \in Terminal
    /\ queries # <<>>
    /\ parked[1].queries # <<>>
    /\ LastQuery.container # parked[1].queries[1].container
    /\ LastQuery.end.n - now > MaxTick

====
